---- MODULE Spec2Model ----
(***************************************************************************)
(* The global functions of the node-gdal binding (src/src/gdal.hpp):       *)
(* open, setConfigOption, getConfigOption, decToDMS, invGeoTransform and   *)
(* applyGeoTransform.  Each handler is a function of its JavaScript        *)
(* argument list `info` (and of the process state it reads) to an outcome: *)
(* a returned value or a thrown error, the library calls it made, and the  *)
(* state it wrote.                                                         *)
(*                                                                         *)
(* Numbers are exact rationals <<n, d>> (d > 0, lowest terms): the         *)
(* rounding of IEEE doubles is not modelled.  Strings that the code        *)
(* inspects or builds are sequences of one-character strings.              *)
(***************************************************************************)
EXTENDS Integers, Sequences, FiniteSets, TLC

VARIABLES
    op,       \* the binding function the caller invokes
    info,     \* its argument list (v8 FunctionCallbackInfo), JS values
    env,      \* what the call reads besides info: build, file system, stack
    out,      \* the outcome of the call, NoOutcome while it is pending
    config,   \* the CPL configuration store: name -> value or CNULL
    lastSet,  \* history: per name, the value of the last set that did not throw
    ncalls    \* number of config calls made so far

vars == <<op, info, env, out, config, lastSet, ncalls>>

-----------------------------------------------------------------------------
(* Rational arithmetic *)

Abs(n) == IF n < 0 THEN -n ELSE n

RECURSIVE Gcd(_, _)
Gcd(a, b) == IF b = 0 THEN a ELSE Gcd(b, a % b)

Rat(n, d) ==
    LET g == Gcd(Abs(n), Abs(d))
        s == IF d < 0 THEN -1 ELSE 1
    IN  <<(s * n) \div g, (s * d) \div g>>

Int2Rat(n) == <<n, 1>>
RAdd(a, b) == Rat(a[1] * b[2] + b[1] * a[2], a[2] * b[2])
RMul(a, b) ==
    LET g1 == Gcd(Abs(a[1]), b[2])
        g2 == Gcd(Abs(b[1]), a[2])
    IN  Rat((a[1] \div g1) * (b[1] \div g2), (a[2] \div g2) * (b[2] \div g1))
RNeg(a) == <<-a[1], a[2]>>
RSub(a, b) == RAdd(a, RNeg(b))
RInv(a) == Rat(a[2], a[1])
RZero == Int2Rat(0)
RIsZero(a) == a[1] = 0
RAbs(a) == <<Abs(a[1]), a[2]>>
RFloor(a) == a[1] \div a[2]
\* the nearest integer to a >= 0, halves upwards
RRound(a) == (2 * a[1] + a[2]) \div (2 * a[2])

RECURSIVE Pow10(_)
Pow10(k) == IF k = 0 THEN 1 ELSE 10 * Pow10(k - 1)

-----------------------------------------------------------------------------
(* JavaScript values *)

Num(q) == [t |-> "number", k |-> "finite", q |-> q]
NumI(n) == Num(Int2Rat(n))
NaN == [t |-> "number", k |-> "nan", q |-> RZero]
PosInf == [t |-> "number", k |-> "inf", q |-> RZero]
NegInf == [t |-> "number", k |-> "-inf", q |-> RZero]
Str(s) == [t |-> "string", s |-> s]
Null == [t |-> "null"]
Undefined == [t |-> "undefined"]
Arr(e) == [t |-> "array", elems |-> e]
Obj(f) == [t |-> "object", fields |-> f]
Handle(lib, path, access) ==
    [t |-> "dataset", lib |-> lib, path |-> path, access |-> access]

IsNumber(v) == v.t = "number"
IsString(v) == v.t = "string"
IsNull(v) == v.t = "null"
IsUndefined(v) == v.t = "undefined"
IsArray(v) == v.t = "array"
IsObject(v) == v.t \in {"object", "array", "dataset"}
IsInt32(v) == IsNumber(v) /\ v.k = "finite" /\ v.q[2] = 1

\* obj->Get(key): undefined when the object has no such property
Get(obj, key) ==
    IF obj.t = "object" /\ key \in DOMAIN obj.fields
    THEN obj.fields[key]
    ELSE Undefined

\* array->Set(i, v), i counted from 0; writing at the length appends
ArraySet(a, i, v) ==
    IF i < Len(a.elems)
    THEN Arr([a.elems EXCEPT ![i + 1] = v])
    ELSE Arr(a.elems \o <<v>>)

-----------------------------------------------------------------------------
(* Outcomes of a handler *)

NoOutcome == [status |-> "pending"]

Return(v, lib) == [status |-> "return", value |-> v, lib |-> lib]
Throw(msg, lib) == [status |-> "throw", msg |-> msg, lib |-> lib]

\* The argument macros of gdal_common.hpp: [ok, val] or [ok, msg]
Arg(v) == [ok |-> TRUE, val |-> v]
ArgError(msg) == [ok |-> FALSE, msg |-> msg]

NODE_ARG_ARRAY(args, num, name) ==
    IF Len(args) < num + 1 THEN ArgError(<<name, "must be given">>)
    ELSE IF ~IsArray(args[num + 1]) THEN ArgError(<<name, "must be an array">>)
    ELSE Arg(args[num + 1])

NODE_ARG_DOUBLE(args, num, name) ==
    IF Len(args) < num + 1 THEN ArgError(<<name, "must be given">>)
    ELSE IF ~IsNumber(args[num + 1]) THEN ArgError(<<name, "must be a number">>)
    ELSE Arg(args[num + 1])

NODE_ARG_STR(args, num, name) ==
    IF Len(args) < num + 1 THEN ArgError(<<name, "must be given">>)
    ELSE IF ~IsString(args[num + 1]) THEN ArgError(<<name, "must be a string">>)
    ELSE Arg(args[num + 1].s)

\* optional arguments keep the default when omitted, null or undefined
NODE_ARG_OPT_STR(args, num, name, default) ==
    IF Len(args) < num + 1 THEN Arg(default)
    ELSE IF IsString(args[num + 1]) THEN Arg(args[num + 1].s)
    ELSE IF IsNull(args[num + 1]) \/ IsUndefined(args[num + 1]) THEN Arg(default)
    ELSE ArgError(<<name, "must be a string">>)

NODE_ARG_INT_OPT(args, num, name, default) ==
    IF Len(args) < num + 1 THEN Arg(default)
    ELSE IF IsInt32(args[num + 1]) THEN Arg(args[num + 1].q[1])
    ELSE IF IsNull(args[num + 1]) \/ IsUndefined(args[num + 1]) THEN Arg(default)
    ELSE ArgError(<<name, "must be an integer">>)

-----------------------------------------------------------------------------
(* The affine transform of the wrapped library *)

\* GDALInvGeoTransform(gt_in, gt_out): [stat, gt_out]; gt_out is left as it
\* was found when the 2x2 part is singular
GDALInvGeoTransform(gt_in, gt_out) ==
    LET det == RSub(RMul(gt_in[2], gt_in[6]), RMul(gt_in[3], gt_in[5]))
    IN  IF RIsZero(det)
        THEN [stat |-> 0, gt_out |-> gt_out]
        ELSE LET inv_det == RInv(det)
                 o1 == RMul(gt_in[6], inv_det)
                 o2 == RMul(RNeg(gt_in[3]), inv_det)
                 o4 == RMul(RNeg(gt_in[5]), inv_det)
                 o5 == RMul(gt_in[2], inv_det)
                 o0 == RSub(RMul(RNeg(gt_in[1]), o1), RMul(gt_in[4], o2))
                 o3 == RSub(RMul(RNeg(gt_in[1]), o4), RMul(gt_in[4], o5))
             IN  [stat |-> 1, gt_out |-> <<o0, o1, o2, o3, o4, o5>>]

\* GDALApplyGeoTransform(gt, x, y, &xout, &yout)
GDALApplyGeoTransform(gt, x, y) ==
    [x |-> RAdd(gt[1], RAdd(RMul(x, gt[2]), RMul(y, gt[3]))),
     y |-> RAdd(gt[4], RAdd(RMul(x, gt[5]), RMul(y, gt[6])))]

-----------------------------------------------------------------------------
(* invGeoTransform and applyGeoTransform *)

\* The same loop behind a length test of `n_num < 6`
ReadGeoTransformAtLeast6(gtIn) ==
    IF Len(gtIn.elems) < 6
    THEN ArgError(<<"Input geotransform array length must equal 6">>)
    ELSE IF \E i \in 1..6 : ~IsNumber(gtIn.elems[i])
    THEN ArgError(<<"geotransform array must only contain numbers">>)
    ELSE Arg([i \in 1..6 |-> gtIn.elems[i].q])

\* The loop that copies the JS array into double dfgtIn[6]
ReadGeoTransform(gtIn) ==
    IF Len(gtIn.elems) # 6
    THEN ArgError(<<"Input geotransform array length must equal 6">>)
    ELSE IF \E i \in 1..6 : ~IsNumber(gtIn.elems[i])
    THEN ArgError(<<"geotransform array must only contain numbers">>)
    ELSE Arg([i \in 1..6 |-> gtIn.elems[i].q])

\* gtOut->Set(0, dfgtOut[0]) ... gtOut->Set(5, dfgtOut[5]), with a slip in
\* the third statement
StoreGeoTransformSlip(gtOut, dfgtOut) ==
    LET s0 == ArraySet(gtOut, 0, Num(dfgtOut[1]))
        s1 == ArraySet(s0, 1, Num(dfgtOut[2]))
        s2 == ArraySet(s1, 2, Num(dfgtOut[2]))
        s3 == ArraySet(s2, 3, Num(dfgtOut[4]))
        s4 == ArraySet(s3, 4, Num(dfgtOut[5]))
    IN  ArraySet(s4, 5, Num(dfgtOut[6]))

\* gtOut->Set(0, dfgtOut[0]) ... gtOut->Set(5, dfgtOut[5])
StoreGeoTransform(gtOut, dfgtOut) ==
    LET s0 == ArraySet(gtOut, 0, Num(dfgtOut[1]))
        s1 == ArraySet(s0, 1, Num(dfgtOut[2]))
        s2 == ArraySet(s1, 2, Num(dfgtOut[3]))
        s3 == ArraySet(s2, 3, Num(dfgtOut[4]))
        s4 == ArraySet(s3, 4, Num(dfgtOut[5]))
    IN  ArraySet(s4, 5, Num(dfgtOut[6]))

\* The outcome of invGeoTransform(info): also the two caller-owned arrays as
\* the call leaves them.  `stack` is what double dfgtOut[6] holds before the
\* library call (it is never initialised); `alias` says that both arguments
\* are the same array object.
InvOutcome(o, gtInAfter, gtOutAfter) ==
    [status |-> o.status, value |-> IF o.status = "return" THEN o.value ELSE Undefined,
     msg |-> IF o.status = "throw" THEN o.msg ELSE <<>>,
     lib |-> o.lib, gtIn |-> gtInAfter, gtOut |-> gtOutAfter]

\* invGeoTransform reporting a failed inversion as an exception
invGeoTransformCallThrowing(args, stack, alias) ==
    LET a0 == NODE_ARG_ARRAY(args, 0, "gtIn")
        a1 == NODE_ARG_ARRAY(args, 1, "gtOut")
        before0 == IF Len(args) >= 1 THEN args[1] ELSE Undefined
        before1 == IF Len(args) >= 2 THEN args[2] ELSE Undefined
    IN  IF ~a0.ok THEN InvOutcome(Throw(a0.msg, <<>>), before0, before1)
        ELSE IF ~a1.ok THEN InvOutcome(Throw(a1.msg, <<>>), before0, before1)
        ELSE LET in == ReadGeoTransform(a0.val)
             IN  IF ~in.ok THEN InvOutcome(Throw(in.msg, <<>>), before0, before1)
                 ELSE LET r == GDALInvGeoTransform(in.val, stack)
                          written == StoreGeoTransform(a1.val, r.gt_out)
                      IN  IF r.stat = 0
                          THEN InvOutcome(Throw(<<"Error inverting geotransform">>,
                                                <<"GDALInvGeoTransform">>),
                                          before0, before1)
                          ELSE InvOutcome(Return(NumI(r.stat), <<"GDALInvGeoTransform">>),
                                          IF alias THEN written ELSE a0.val,
                                          written)

invGeoTransformCall(args, stack, alias) ==
    LET a0 == NODE_ARG_ARRAY(args, 0, "gtIn")
        a1 == NODE_ARG_ARRAY(args, 1, "gtOut")
        before0 == IF Len(args) >= 1 THEN args[1] ELSE Undefined
        before1 == IF Len(args) >= 2 THEN args[2] ELSE Undefined
    IN  IF ~a0.ok THEN InvOutcome(Throw(a0.msg, <<>>), before0, before1)
        ELSE IF ~a1.ok THEN InvOutcome(Throw(a1.msg, <<>>), before0, before1)
        ELSE LET in == ReadGeoTransform(a0.val)
             IN  IF ~in.ok THEN InvOutcome(Throw(in.msg, <<>>), before0, before1)
                 ELSE LET r == GDALInvGeoTransform(in.val, stack)
                          written == StoreGeoTransform(a1.val, r.gt_out)
                      IN  InvOutcome(Return(NumI(r.stat), <<"GDALInvGeoTransform">>),
                                     IF alias THEN written ELSE a0.val,
                                     written)

\* The same with the two properties of the object read the wrong way round
ReadPointSwapped(args) ==
    IF Len(args) = 2 /\ IsObject(args[2])
    THEN LET arg_x == Get(args[2], "y")
             arg_y == Get(args[2], "x")
         IN  IF ~IsNumber(arg_x) \/ ~IsNumber(arg_y)
             THEN ArgError(<<"point must contain numerical properties x and y">>)
             ELSE Arg([x |-> arg_x.q, y |-> arg_y.q])
    ELSE LET ax == NODE_ARG_DOUBLE(args, 1, "x")
             ay == NODE_ARG_DOUBLE(args, 2, "y")
         IN  IF ~ax.ok THEN ax
             ELSE IF ~ay.ok THEN ay
             ELSE Arg([x |-> ax.val.q, y |-> ay.val.q])

\* The point of applyGeoTransform: info[1] as an object with x and y, or
\* info[1] and info[2] as two numbers
ReadPoint(args) ==
    IF Len(args) = 2 /\ IsObject(args[2])
    THEN LET arg_x == Get(args[2], "x")
             arg_y == Get(args[2], "y")
         IN  IF ~IsNumber(arg_x) \/ ~IsNumber(arg_y)
             THEN ArgError(<<"point must contain numerical properties x and y">>)
             ELSE Arg([x |-> arg_x.q, y |-> arg_y.q])
    ELSE LET ax == NODE_ARG_DOUBLE(args, 1, "x")
             ay == NODE_ARG_DOUBLE(args, 2, "y")
         IN  IF ~ax.ok THEN ax
             ELSE IF ~ay.ok THEN ay
             ELSE Arg([x |-> ax.val.q, y |-> ay.val.q])

applyGeoTransformCall(args) ==
    LET a0 == NODE_ARG_ARRAY(args, 0, "gtIn")
    IN  IF ~a0.ok THEN Throw(a0.msg, <<>>)
        ELSE LET in == ReadGeoTransform(a0.val)
             IN  IF ~in.ok THEN Throw(in.msg, <<>>)
                 ELSE LET p == ReadPoint(args)
                      IN  IF ~p.ok THEN Throw(p.msg, <<>>)
                          ELSE LET r == GDALApplyGeoTransform(in.val, p.val.x, p.val.y)
                               IN  Return(Obj([x |-> Num(r.x), y |-> Num(r.y)]),
                                          <<"GDALApplyGeoTransform">>)

-----------------------------------------------------------------------------
(* The calls of the affine-transform specification *)

Linear == {-1, 0, 1, 2}
Offsets == {0, 3}
Coords == {Int2Rat(-1), Int2Rat(0), <<1, 2>>, Int2Rat(2)}

GeoTransforms ==
    {<<Int2Rat(c0), Int2Rat(c1), Int2Rat(c2), Int2Rat(c3), Int2Rat(c4), Int2Rat(c5)>> :
        c0 \in Offsets, c1 \in Linear, c2 \in Linear,
        c3 \in Offsets, c4 \in Linear, c5 \in Linear}

GtArray(gt) == Arr([i \in 1..Len(gt) |-> Num(gt[i])])

Filled(n) == GtArray(<<Int2Rat(n), Int2Rat(n), Int2Rat(n), Int2Rat(n), Int2Rat(n), Int2Rat(n)>>)

\* arrays that are not six numbers
BadTransforms ==
    {Arr(<<>>),
     Arr(<<NumI(0), NumI(1), NumI(0), NumI(0), NumI(0)>>),
     Arr(<<NumI(0), NumI(1), NumI(0), NumI(0), NumI(0), NumI(1), NumI(0)>>),
     Arr(<<NumI(0), NumI(1), NumI(0), NumI(0), NumI(0), Str(<<"1">>)>>),
     Arr(<<NumI(0), NumI(2), Null, NumI(0), NumI(2), NumI(0)>>)}

TransformArgs == {GtArray(gt) : gt \in GeoTransforms} \cup BadTransforms

OutBuffers == {Filled(0), Filled(9), Arr(<<>>)}

\* what the uninitialised dfgtOut[6] may hold
Stacks ==
    {[i \in 1..6 |-> Int2Rat(0)], [i \in 1..6 |-> Int2Rat(9)],
     [i \in 1..6 |-> Int2Rat(7 * i)]}

\* transforms also passed as both arguments of invGeoTransform
SharedTransforms ==
    {<<Int2Rat(0), Int2Rat(1), Int2Rat(0), Int2Rat(0), Int2Rat(0), Int2Rat(1)>>,
     <<Int2Rat(3), Int2Rat(2), Int2Rat(1), Int2Rat(3), Int2Rat(-1), Int2Rat(2)>>,
     <<Int2Rat(0), Int2Rat(2), Int2Rat(0), Int2Rat(0), Int2Rat(2), Int2Rat(0)>>}

InvCalls ==
    {<<a, b>> : a \in TransformArgs, b \in OutBuffers}
    \cup {<<GtArray(gt), GtArray(gt)>> : gt \in SharedTransforms}
    \cup {<<>>, <<Filled(1)>>, <<Filled(1), NumI(6)>>, <<Str(<<"x">>), Filled(0)>>}

PointArgs ==
    {<<Num(x), Num(y)>> : x \in Coords, y \in Coords}
    \cup {<<Obj([x |-> Num(x), y |-> Num(y)])>> : x \in Coords, y \in Coords}

BadPointArgs ==
    {<<>>, <<NumI(1)>>, <<Str(<<"1">>), NumI(1)>>, <<NumI(1), Null>>,
     <<Obj([x |-> NumI(1)])>>, <<Obj([x |-> NumI(1), y |-> Str(<<"2">>)])>>,
     <<Obj([x |-> NumI(1), y |-> NumI(2)]), NumI(3)>>}

ApplyCalls ==
    {<<a>> \o p : a \in TransformArgs, p \in PointArgs}
    \cup {<<Filled(1)>> \o p : p \in BadPointArgs}
    \cup {<<>>, <<NumI(1), NumI(1), NumI(1)>>}

NoEnv == [stack |-> <<>>, alias |-> FALSE]

InitGeo ==
    /\ \/ /\ op = "invGeoTransform"
          /\ info \in InvCalls
          /\ \E s \in Stacks :
                \/ env = [stack |-> s, alias |-> FALSE]
                \/ /\ Len(info) = 2
                   /\ info[1] = info[2]
                   /\ env = [stack |-> s, alias |-> TRUE]
       \/ /\ op = "applyGeoTransform"
          /\ info \in ApplyCalls
          /\ env = NoEnv
    /\ out = NoOutcome
    /\ config = <<>>
    /\ lastSet = <<>>
    /\ ncalls = 0

invGeoTransform ==
    /\ op = "invGeoTransform"
    /\ out = NoOutcome
    /\ out' = invGeoTransformCall(info, env.stack, env.alias)
    /\ UNCHANGED <<op, info, env, config, lastSet, ncalls>>

applyGeoTransform ==
    /\ op = "applyGeoTransform"
    /\ out = NoOutcome
    /\ out' = applyGeoTransformCall(info)
    /\ UNCHANGED <<op, info, env, config, lastSet, ncalls>>

NextGeo == invGeoTransform \/ applyGeoTransform

SpecGeo == InitGeo /\ [][NextGeo]_vars

-----------------------------------------------------------------------------
(* Properties of the affine transform *)

Pending == out = NoOutcome
InvDone == op = "invGeoTransform" /\ ~Pending
ApplyDone == op = "applyGeoTransform" /\ ~Pending

\* info[0] is an array of six numbers
SixNumbers(args) ==
    /\ Len(args) >= 1
    /\ IsArray(args[1])
    /\ Len(args[1].elems) = 6
    /\ \A i \in 1..6 : IsNumber(args[1].elems[i])

Coef(args, i) == args[1].elems[i + 1].q

\* c1*c5 - c2*c4, from the argument itself
Determinant(args) ==
    RSub(RMul(Coef(args, 1), Coef(args, 5)), RMul(Coef(args, 2), Coef(args, 4)))

InvArgsValid == SixNumbers(info) /\ Len(info) >= 2 /\ IsArray(info[2])

PointObj(x, y) == Obj([x |-> Num(x), y |-> Num(y)])

\* C1: round trip.  When invGeoTransform is given a transform T with
\* c1*c5 - c2*c4 # 0 it returns 1, and for every pixel coordinate p,
\* applying T and then the transform left in gtOut gives back exactly p.
C1_RoundTrip ==
    (InvDone /\ InvArgsValid /\ ~RIsZero(Determinant(info))) =>
        /\ out.status = "return"
        /\ out.value = NumI(1)
        /\ \A x \in Coords, y \in Coords :
              LET geo == applyGeoTransformCall(<<info[1], Num(x), Num(y)>>)
                  back == applyGeoTransformCall(
                              <<out.gtOut, geo.value.fields.x, geo.value.fields.y>>)
              IN  /\ geo.status = "return"
                  /\ back.status = "return"
                  /\ back.value = PointObj(x, y)

\* an inversion whose result has fractional coefficients and a translation
C1_Witness ==
    /\ InvDone /\ InvArgsValid
    /\ info[1] = GtArray(<<Int2Rat(3), Int2Rat(2), Int2Rat(1),
                           Int2Rat(3), Int2Rat(-1), Int2Rat(2)>>)
    /\ out.value = NumI(1)
    /\ out.gtOut.elems[2] = Num(<<2, 5>>)
    /\ out.gtOut.elems[1] = Num(<<-3, 5>>)

\* C2: singularity detection.  For every array of six numbers (and an output
\* array) invGeoTransform returns, never throws, and the status it returns
\* is 0 exactly when c1*c5 - c2*c4 is zero, and 1 otherwise.
C2_SingularStatus ==
    (InvDone /\ InvArgsValid) =>
        /\ out.status = "return"
        /\ out.value = IF RIsZero(Determinant(info)) THEN NumI(0) ELSE NumI(1)

C2_Witness ==
    /\ InvDone /\ InvArgsValid
    /\ info[1] = GtArray(<<Int2Rat(0), Int2Rat(2), Int2Rat(0),
                           Int2Rat(0), Int2Rat(2), Int2Rat(0)>>)
    /\ out.status = "return"
    /\ out.value = NumI(0)

\* C5: invalid coefficient arity.  invGeoTransform and applyGeoTransform
\* given an array that is not six numbers throw, return nothing, and make no
\* call of the library's transform arithmetic.
C5_InvalidArity ==
    ((InvDone \/ ApplyDone) /\ Len(info) >= 1 /\ IsArray(info[1]) /\ ~SixNumbers(info)) =>
        /\ out.status = "throw"
        /\ out.lib = <<>>

\* an array of seven numbers has been refused by applyGeoTransform
C5_Witness ==
    /\ ApplyDone
    /\ Len(info) >= 1 /\ IsArray(info[1]) /\ Len(info[1].elems) = 7
    /\ out.status = "throw"
    /\ out.msg = <<"Input geotransform array length must equal 6">>

\* the point of an applyGeoTransform call, in either shape
PointOf(args) ==
    IF Len(args) = 2
    THEN [x |-> args[2].fields.x.q, y |-> args[2].fields.y.q]
    ELSE [x |-> args[2].q, y |-> args[3].q]

PointGiven(args) ==
    \/ /\ Len(args) = 3 /\ IsNumber(args[2]) /\ IsNumber(args[3])
    \/ /\ Len(args) = 2 /\ args[2].t = "object"
       /\ DOMAIN args[2].fields = {"x", "y"}
       /\ IsNumber(args[2].fields.x) /\ IsNumber(args[2].fields.y)

IdentityTransform ==
    GtArray(<<Int2Rat(0), Int2Rat(1), Int2Rat(0), Int2Rat(0), Int2Rat(0), Int2Rat(1)>>)

\* C7: forward application.  For six numeric coefficients and a point given
\* as two numbers or as one object {x, y}, applyGeoTransform returns
\* {x: c0 + x*c1 + y*c2, y: c3 + x*c4 + y*c5}; the other input shape gives
\* the same outcome, and the identity transform returns the point.
C7_ForwardApplication ==
    (ApplyDone /\ SixNumbers(info) /\ PointGiven(info)) =>
        LET p == PointOf(info)
            gx == RAdd(Coef(info, 0),
                       RAdd(RMul(p.x, Coef(info, 1)), RMul(p.y, Coef(info, 2))))
            gy == RAdd(Coef(info, 3),
                       RAdd(RMul(p.x, Coef(info, 4)), RMul(p.y, Coef(info, 5))))
        IN  /\ out.status = "return"
            /\ out.value = PointObj(gx, gy)
            /\ applyGeoTransformCall(<<info[1], Num(p.x), Num(p.y)>>) = out
            /\ applyGeoTransformCall(<<info[1], PointObj(p.x, p.y)>>) = out
            /\ info[1] = IdentityTransform => out.value = PointObj(p.x, p.y)

\* a point given as an object, with x # y, through a transform that mixes
\* the two axes
C7_Witness ==
    /\ ApplyDone
    /\ info = <<GtArray(<<Int2Rat(3), Int2Rat(2), Int2Rat(-1),
                          Int2Rat(0), Int2Rat(1), Int2Rat(2)>>),
                PointObj(<<1, 2>>, Int2Rat(2))>>
    /\ out.status = "return"
    /\ out.value = PointObj(Int2Rat(2), <<9, 2>>)

\* C10: no partial success on inversion.  Unless invGeoTransform returns 1,
\* gtOut holds after the call what it held before it, and gtIn is never
\* changed.
C10_NoPartialSuccess ==
    InvDone =>
        /\ (Len(info) >= 2 /\ ~(out.status = "return" /\ out.value = NumI(1)))
              => out.gtOut = info[2]
        /\ Len(info) >= 1 => out.gtIn = info[1]

-----------------------------------------------------------------------------
(* decToDMS *)

Lower == <<"a", "b", "c", "d", "e", "f", "g", "h", "i", "j", "k", "l", "m",
           "n", "o", "p", "q", "r", "s", "t", "u", "v", "w", "x", "y", "z">>
Upper == <<"A", "B", "C", "D", "E", "F", "G", "H", "I", "J", "K", "L", "M",
           "N", "O", "P", "Q", "R", "S", "T", "U", "V", "W", "X", "Y", "Z">>

\* toupper(c) in the C locale
toupper(c) ==
    IF \E i \in 1..26 : Lower[i] = c
    THEN Upper[CHOOSE i \in 1..26 : Lower[i] = c]
    ELSE c

Digits == <<"0", "1", "2", "3", "4", "5", "6", "7", "8", "9">>

\* printf("%d") of n >= 0
RECURSIVE FormatNat(_)
FormatNat(n) ==
    IF n < 10 THEN <<Digits[n + 1]>>
    ELSE FormatNat(n \div 10) \o <<Digits[(n % 10) + 1]>>

\* the last k decimal digits of n, zeros included
RECURSIVE FormatFraction(_, _)
FormatFraction(n, k) ==
    IF k = 0 THEN <<>>
    ELSE FormatFraction(n \div 10, k - 1) \o <<Digits[(n % 10) + 1]>>

\* printf("%.{precision}f") of scaled / 10^precision
FormatFixed(scaled, precision) ==
    FormatNat(scaled \div Pow10(precision))
    \o (IF precision = 0 THEN <<>>
        ELSE <<".">> \o FormatFraction(scaled % Pow10(precision), precision))

\* a C string pointer
CNULL == [null |-> TRUE]
CStr(chars) == [null |-> FALSE, chars |-> chars]

\* SafeString::New(const char*): null for a NULL pointer
SafeStringNew(ptr) == IF ptr.null THEN Null ELSE Str(ptr.chars)

\* GDALDecToDMS(dfAngle, pszAxis, nPrecision): the formatted text, or NULL
\* for an angle or a precision it cannot format
GDALDecToDMS(angle, axis, precision) ==
    IF angle.k # "finite" \/ precision < 0 THEN CNULL
    ELSE
    LET negative == angle.q[1] < 0
        hemisphere == IF axis = <<"L", "a", "t">>
                      THEN (IF negative THEN "S" ELSE "N")
                      ELSE (IF negative THEN "W" ELSE "E")
        absAngle == RAbs(angle.q)
        degrees == RFloor(absAngle)
        minutesFull == RMul(RSub(absAngle, Int2Rat(degrees)), Int2Rat(60))
        minutes == RFloor(minutesFull)
        seconds == RMul(RSub(minutesFull, Int2Rat(minutes)), Int2Rat(60))
        rounded == RRound(RMul(seconds, Int2Rat(Pow10(precision))))
        carryS == rounded = 60 * Pow10(precision)
        sec1 == IF carryS THEN 0 ELSE rounded
        min1 == IF carryS THEN minutes + 1 ELSE minutes
        carryM == min1 = 60
        min2 == IF carryM THEN 0 ELSE min1
        deg2 == IF carryM THEN degrees + 1 ELSE degrees
    IN  CStr(FormatNat(deg2) \o <<"d">> \o FormatNat(min2) \o <<"'">>
             \o FormatFixed(sec1, precision) \o <<"\"">> \o <<hemisphere>>)

\* axis[0] = toupper(axis[0]) left out
NormalizeAxisNone(axis) == axis

\* if (axis.length() > 0) axis[0] = toupper(axis[0])
NormalizeAxis(axis) ==
    IF Len(axis) > 0 THEN [axis EXCEPT ![1] = toupper(axis[1])] ELSE axis

\* decToDMS reading its precision from argument 1
decToDMSCallPrecisionIndex(args) ==
    LET a0 == NODE_ARG_DOUBLE(args, 0, "angle")
        a1 == NODE_ARG_STR(args, 1, "axis")
        a2 == NODE_ARG_INT_OPT(args, 1, "precision", 2)
    IN  IF ~a0.ok THEN Throw(a0.msg, <<>>)
        ELSE IF ~a1.ok THEN Throw(a1.msg, <<>>)
        ELSE IF ~a2.ok THEN Throw(a2.msg, <<>>)
        ELSE LET axis == NormalizeAxis(a1.val)
             IN  IF axis # <<"L", "a", "t">> /\ axis # <<"L", "o", "n", "g">>
                 THEN Throw(<<"Axis must be 'lat' or 'long'">>, <<>>)
                 ELSE Return(SafeStringNew(GDALDecToDMS(a0.val, axis, a2.val)),
                             <<"GDALDecToDMS">>)

decToDMSCall(args) ==
    LET a0 == NODE_ARG_DOUBLE(args, 0, "angle")
        a1 == NODE_ARG_STR(args, 1, "axis")
        a2 == NODE_ARG_INT_OPT(args, 2, "precision", 2)
    IN  IF ~a0.ok THEN Throw(a0.msg, <<>>)
        ELSE IF ~a1.ok THEN Throw(a1.msg, <<>>)
        ELSE IF ~a2.ok THEN Throw(a2.msg, <<>>)
        ELSE LET axis == NormalizeAxis(a1.val)
             IN  IF axis # <<"L", "a", "t">> /\ axis # <<"L", "o", "n", "g">>
                 THEN Throw(<<"Axis must be 'lat' or 'long'">>, <<>>)
                 ELSE Return(SafeStringNew(GDALDecToDMS(a0.val, axis, a2.val)),
                             <<"GDALDecToDMS">>)

-----------------------------------------------------------------------------
(* The calls of the angle-formatter specification *)

MaxPrecision == 2

FiniteAngles ==
    {Num(Int2Rat(0)), Num(Int2Rat(1)), Num(Int2Rat(-90)),
     Num(Rat(-455, 10)), Num(Rat(-5, 10)),
     Num(Rat(45999999, 1000000)), Num(Rat(-45999999, 1000000)),
     Num(Rat(10016666, 1000000)), Num(Rat(999999, 1000000)),
     Num(Rat(12345678, 1000000)), Num(Rat(30508375, 1000000)),
     Num(Rat(7124, 1000))}

NonFiniteAngles == {NaN, PosInf, NegInf}

AxisLAT == <<"L", "A", "T">>
AxisLat == <<"L", "a", "t">>
Axislat == <<"l", "a", "t">>
AxisLONG == <<"L", "O", "N", "G">>
AxisLong == <<"L", "o", "n", "g">>
Axislong == <<"l", "o", "n", "g">>
Axislatitude == <<"l", "a", "t", "i", "t", "u", "d", "e">>
Axisxyz == <<"x", "y", "z">>

Axes == {AxisLAT, AxisLat, Axislat, AxisLONG, AxisLong, Axislong,
         Axislatitude, Axisxyz, <<>>}

PrecisionArgs ==
    {<<>>, <<Undefined>>, <<Str(<<"2">>)>>, <<Num(<<1, 2>>)>>, <<NumI(-1)>>}
    \cup {<<NumI(p)>> : p \in 0..MaxPrecision}

DMSCalls ==
    {<<a, Str(x)>> \o p :
        a \in FiniteAngles \cup NonFiniteAngles, x \in Axes, p \in PrecisionArgs}
    \cup {<<>>, <<NumI(1)>>, <<Str(<<"1">>), Str(AxisLat)>>, <<NumI(1), NumI(1)>>}

InitDMS ==
    /\ op = "decToDMS"
    /\ info \in DMSCalls
    /\ env = NoEnv
    /\ out = NoOutcome
    /\ config = <<>>
    /\ lastSet = <<>>
    /\ ncalls = 0

decToDMS ==
    /\ op = "decToDMS"
    /\ out = NoOutcome
    /\ out' = decToDMSCall(info)
    /\ UNCHANGED <<op, info, env, config, lastSet, ncalls>>

NextDMS == decToDMS

SpecDMS == InitDMS /\ [][NextDMS]_vars

-----------------------------------------------------------------------------
(* Properties of decToDMS *)

DMSDone == op = "decToDMS" /\ ~Pending

\* the precision the call asks for: the third argument, 2 when it is
\* omitted or undefined; -1 stands for an argument that is no count of digits
PrecisionOf(args) ==
    IF Len(args) < 3 \/ IsUndefined(args[3]) \/ IsNull(args[3]) THEN 2
    ELSE IF IsInt32(args[3]) /\ args[3].q[1] >= 0 THEN args[3].q[1]
    ELSE -1

\* angle a number, axis a string, precision a count of digits
DMSArgsValid ==
    /\ Len(info) >= 2
    /\ IsNumber(info[1])
    /\ IsString(info[2])
    /\ PrecisionOf(info) >= 0

WithAxis(args, axis) == [args EXCEPT ![2] = Str(axis)]

AxisError == <<"Axis must be 'lat' or 'long'">>

\* C3 as amended: axis "Lat" and "lat" both succeed and give the same
\* result for the same angle and precision (a string when the angle is
\* finite); "LAT", "latitude" and "xyz" throw "Axis must be 'lat' or 'long'"
\* and return nothing.
C3_AxisNormalization ==
    (DMSDone /\ DMSArgsValid) =>
        /\ info[2].s \in {AxisLat, Axislat} =>
              /\ out.status = "return"
              /\ out = decToDMSCall(WithAxis(info, AxisLat))
              /\ out = decToDMSCall(WithAxis(info, Axislat))
              /\ info[1].k = "finite" => IsString(out.value)
        /\ info[2].s \in {AxisLAT, Axislatitude, Axisxyz} =>
              /\ out.status = "throw"
              /\ out.msg = AxisError
              /\ out.lib = <<>>

\* "lat" has been accepted and formatted
C3_Witness ==
    /\ DMSDone
    /\ info = <<NumI(1), Str(Axislat)>>
    /\ out.status = "return"
    /\ out.value = Str(<<"1", "d", "0", "'", "0", ".", "0", "0", "\"", "N">>)

\* C3 as stated: "LAT", "Lat" and "lat" all succeed with the same string,
\* "latitude" and "xyz" throw.
C3_Original ==
    (DMSDone /\ DMSArgsValid) =>
        /\ info[2].s \in {AxisLAT, AxisLat, Axislat} =>
              /\ out.status = "return"
              /\ out = decToDMSCall(WithAxis(info, AxisLat))
        /\ info[2].s \in {Axislatitude, Axisxyz} =>
              /\ out.status = "throw"
              /\ out.msg = AxisError

\* C4: a non-finite angle with a valid axis throws, and no string is
\* returned for it.
C4_NonFiniteAngle ==
    (DMSDone /\ DMSArgsValid /\ info[1].k # "finite"
        /\ info[2].s \in {AxisLat, Axislat, AxisLong, Axislong}) =>
        out.status = "throw"

\* the text of s before the first c, and after it
RECURSIVE Before(_, _)
Before(s, c) ==
    IF s = <<>> \/ Head(s) = c THEN <<>> ELSE <<Head(s)>> \o Before(Tail(s), c)

After(s, c) == SubSeq(s, Len(Before(s, c)) + 2, Len(s))

IsDigits(s) == Len(s) > 0 /\ \A i \in 1..Len(s) : \E d \in 1..10 : Digits[d] = s[i]

DigitValue(c) == (CHOOSE d \in 1..10 : Digits[d] = c) - 1

RECURSIVE ParseNat(_)
ParseNat(s) ==
    IF s = <<>> THEN 0
    ELSE 10 * ParseNat(SubSeq(s, 1, Len(s) - 1)) + DigitValue(s[Len(s)])

\* the fields of "{degrees}d{minutes}'{seconds}"{hemisphere}"
DMSFields(s) ==
    [degrees |-> Before(s, "d"),
     minutes |-> Before(After(s, "d"), "'"),
     seconds |-> Before(After(After(s, "d"), "'"), "\""),
     hemisphere |-> After(After(After(s, "d"), "'"), "\"")]

\* a seconds field at precision p: digits, and "." and p digits when p > 0
SecondsWellFormed(sec, p) ==
    IF p = 0 THEN IsDigits(sec)
    ELSE /\ IsDigits(Before(sec, "."))
         /\ IsDigits(After(sec, "."))
         /\ Len(After(sec, ".")) = p
         /\ Len(sec) = Len(Before(sec, ".")) + 1 + p

\* the seconds field in units of 10^-p seconds
SecondsScaled(sec, p) ==
    IF p = 0 THEN ParseNat(sec)
    ELSE ParseNat(Before(sec, ".")) * Pow10(p) + ParseNat(After(sec, "."))

-----------------------------------------------------------------------------
(* setConfigOption and getConfigOption *)

\* CPLSetConfigOption(pszKey, pszValue): a NULL value clears the option
CPLSetConfigOption(store, key, value) ==
    [k \in DOMAIN store \cup {key} |-> IF k = key THEN value ELSE store[k]]

\* CPLGetConfigOption(pszKey, NULL)
CPLGetConfigOption(store, key) ==
    IF key \in DOMAIN store THEN store[key] ELSE CNULL

\* [out, config]: the outcome and the store as the call leaves it
ConfigOutcome(o, store) == [out |-> o, config |-> store]

\* setConfigOption with nothing done for a null or undefined value
setConfigOptionCallNoClear(args, store) ==
    LET a0 == NODE_ARG_STR(args, 0, "name")
    IN  IF ~a0.ok THEN ConfigOutcome(Throw(a0.msg, <<>>), store)
        ELSE IF Len(args) < 2
        THEN ConfigOutcome(Throw(<<"string or null value must be provided">>, <<>>), store)
        ELSE IF IsString(args[2])
        THEN ConfigOutcome(Return(Undefined, <<"CPLSetConfigOption">>),
                           CPLSetConfigOption(store, a0.val, CStr(args[2].s)))
        ELSE IF IsNull(args[2]) \/ IsUndefined(args[2])
        THEN ConfigOutcome(Return(Undefined, <<>>), store)
        ELSE ConfigOutcome(Throw(<<"value must be a string or null">>, <<>>), store)

setConfigOptionCall(args, store) ==
    LET a0 == NODE_ARG_STR(args, 0, "name")
    IN  IF ~a0.ok THEN ConfigOutcome(Throw(a0.msg, <<>>), store)
        ELSE IF Len(args) < 2
        THEN ConfigOutcome(Throw(<<"string or null value must be provided">>, <<>>), store)
        ELSE IF IsString(args[2])
        THEN ConfigOutcome(Return(Undefined, <<"CPLSetConfigOption">>),
                           CPLSetConfigOption(store, a0.val, CStr(args[2].s)))
        ELSE IF IsNull(args[2]) \/ IsUndefined(args[2])
        THEN ConfigOutcome(Return(Undefined, <<"CPLSetConfigOption">>),
                           CPLSetConfigOption(store, a0.val, CNULL))
        ELSE ConfigOutcome(Throw(<<"value must be a string or null">>, <<>>), store)

getConfigOptionCall(args, store) ==
    LET a0 == NODE_ARG_STR(args, 0, "name")
    IN  IF ~a0.ok THEN ConfigOutcome(Throw(a0.msg, <<>>), store)
        ELSE ConfigOutcome(
                 Return(SafeStringNew(CPLGetConfigOption(store, a0.val)),
                        <<"CPLGetConfigOption">>),
                 store)

MaxCalls == 4

ConfigNames == {<<"K", "1">>, <<"K", "2">>}
ConfigValues == {<<"O", "N">>, <<"O", "F", "F">>}

SetCalls ==
    {<<Str(n), v>> : n \in ConfigNames,
                     v \in {Str(x) : x \in ConfigValues} \cup {Null, Undefined, NumI(1)}}
    \cup {<<Str(n)>> : n \in ConfigNames}
    \cup {<<>>, <<NumI(1), Str(<<"O", "N">>)>>}

GetCalls == {<<Str(n)>> : n \in ConfigNames} \cup {<<>>, <<Null>>}

InitConfig ==
    /\ op = "none"
    /\ info = <<>>
    /\ env = NoEnv
    /\ out = NoOutcome
    /\ config = <<>>
    /\ lastSet = <<>>
    /\ ncalls = 0

\* the history of sets: a call that returns records its value, null for a
\* null or undefined one
RecordSet(hist, args, o) ==
    IF o.status = "return"
    THEN [k \in DOMAIN hist \cup {args[1].s} |->
             IF k = args[1].s
             THEN (IF IsString(args[2]) THEN args[2] ELSE Null)
             ELSE hist[k]]
    ELSE hist

setConfigOption ==
    /\ op \in {"none", "setConfigOption", "getConfigOption"}
    /\ ncalls < MaxCalls
    /\ \E args \in SetCalls :
          LET r == setConfigOptionCall(args, config)
          IN  /\ op' = "setConfigOption"
              /\ info' = args
              /\ out' = r.out
              /\ config' = r.config
              /\ lastSet' = RecordSet(lastSet, args, r.out)
    /\ ncalls' = ncalls + 1
    /\ UNCHANGED env

getConfigOption ==
    /\ op \in {"none", "setConfigOption", "getConfigOption"}
    /\ ncalls < MaxCalls
    /\ \E args \in GetCalls :
          LET r == getConfigOptionCall(args, config)
          IN  /\ op' = "getConfigOption"
              /\ info' = args
              /\ out' = r.out
              /\ config' = r.config
    /\ ncalls' = ncalls + 1
    /\ UNCHANGED <<env, lastSet>>

NextConfig == setConfigOption \/ getConfigOption

SpecConfig == InitConfig /\ [][NextConfig]_vars

LastSetOf(name) == IF name \in DOMAIN lastSet THEN lastSet[name] ELSE Null

\* C8: the config-option store.  Whatever calls have been made, the store
\* holds for every name the value of the last set of that name that did not
\* throw (nothing when that value was null or undefined, or when there was
\* no such set), and a getConfigOption of a name returns exactly that value,
\* or null.  Calls that throw and calls of getConfigOption thus leave every
\* stored option as it was.
C8_ConfigStore ==
    /\ \A n \in ConfigNames :
          SafeStringNew(CPLGetConfigOption(config, n)) = LastSetOf(n)
    /\ (op = "getConfigOption" /\ Len(info) >= 1 /\ IsString(info[1])) =>
          /\ out.status = "return"
          /\ out.value = LastSetOf(info[1].s)

\* K1 was set to "ON", then cleared with null, and a get now returns null
\* while K2, set before, is still "OFF"
C8_Witness ==
    /\ op = "getConfigOption"
    /\ info = <<Str(<<"K", "1">>)>>
    /\ out.status = "return"
    /\ out.value = Null
    /\ <<"K", "1">> \in DOMAIN config
    /\ LastSetOf(<<"K", "2">>) = Str(<<"O", "F", "F">>)

-----------------------------------------------------------------------------
(* open *)

ModeR == <<"r">>
ModeRPlus == <<"r", "+">>

InvalidMode == <<"Invalid open mode. Must be \"r\" or \"r+\"">>
OpenError == <<"Error opening dataset">>

LibCall(fn, path, access) == [fn |-> fn, path |-> path, access |-> access]

\* open in a build with GDAL_VERSION_MAJOR < 2, the raster registry first
openCallRasterFirst(args, major, fs) ==
    LET a0 == NODE_ARG_STR(args, 0, "path")
        a1 == NODE_ARG_OPT_STR(args, 1, "mode", ModeR)
    IN  IF ~a0.ok THEN Throw(a0.msg, <<>>)
        ELSE IF ~a1.ok THEN Throw(a1.msg, <<>>)
        ELSE IF a1.val # ModeRPlus /\ a1.val # ModeR THEN Throw(InvalidMode, <<>>)
        ELSE IF major < 2
        THEN LET access == IF a1.val = ModeRPlus THEN "GA_Update" ELSE "GA_ReadOnly"
                 ogr == LibCall("OGRSFDriverRegistrar::Open", a0.val, access)
                 gdal == LibCall("GDALOpen", a0.val, access)
             IN  IF access \in fs.gdal
                 THEN Return(Handle("GDALDataset", a0.val, access), <<gdal>>)
                 ELSE IF access \in fs.ogr
                 THEN Return(Handle("OGRDataSource", a0.val, access), <<gdal, ogr>>)
                 ELSE Throw(OpenError, <<gdal, ogr>>)
        ELSE LET flags == IF a1.val = ModeRPlus THEN "GDAL_OF_UPDATE"
                          ELSE "GDAL_OF_READONLY"
                 ex == LibCall("GDALOpenEx", a0.val, flags)
             IN  IF flags \in fs.ex
                 THEN Return(Handle("GDALDataset", a0.val, flags), <<ex>>)
                 ELSE Throw(OpenError, <<ex>>)

\* open(path, mode) in a build with GDAL_VERSION_MAJOR = major; fs gives, for
\* each library entry point, the access modes under which it opens the path
openCall(args, major, fs) ==
    LET a0 == NODE_ARG_STR(args, 0, "path")
        a1 == NODE_ARG_OPT_STR(args, 1, "mode", ModeR)
    IN  IF ~a0.ok THEN Throw(a0.msg, <<>>)
        ELSE IF ~a1.ok THEN Throw(a1.msg, <<>>)
        ELSE IF a1.val # ModeRPlus /\ a1.val # ModeR THEN Throw(InvalidMode, <<>>)
        ELSE IF major < 2
        THEN LET access == IF a1.val = ModeRPlus THEN "GA_Update" ELSE "GA_ReadOnly"
                 ogr == LibCall("OGRSFDriverRegistrar::Open", a0.val, access)
                 gdal == LibCall("GDALOpen", a0.val, access)
             IN  IF access \in fs.ogr
                 THEN Return(Handle("OGRDataSource", a0.val, access), <<ogr>>)
                 ELSE IF access \in fs.gdal
                 THEN Return(Handle("GDALDataset", a0.val, access), <<ogr, gdal>>)
                 ELSE Throw(OpenError, <<ogr, gdal>>)
        ELSE LET flags == IF a1.val = ModeRPlus THEN "GDAL_OF_UPDATE"
                          ELSE "GDAL_OF_READONLY"
                 ex == LibCall("GDALOpenEx", a0.val, flags)
             IN  IF flags \in fs.ex
                 THEN Return(Handle("GDALDataset", a0.val, flags), <<ex>>)
                 ELSE Throw(OpenError, <<ex>>)

\* the library builds: GDAL_VERSION_MAJOR
Builds == {1, 2}

Paths == {<<"a">>, <<"b">>}

ModeArgs ==
    {<<>>, <<Undefined>>, <<Null>>, <<NumI(1)>>, <<Str(ModeR)>>, <<Str(ModeRPlus)>>,
     <<Str(<<"w">>)>>, <<Str(<<>>)>>, <<Str(<<"R">>)>>}

OpenCalls ==
    {<<Str(q)>> \o m : q \in Paths, m \in ModeArgs} \cup {<<>>, <<NumI(1)>>}

FileSystems ==
    [ogr : SUBSET {"GA_ReadOnly", "GA_Update"},
     gdal : SUBSET {"GA_ReadOnly", "GA_Update"},
     ex : {{}, {"GDAL_OF_READONLY"}, {"GDAL_OF_READONLY", "GDAL_OF_UPDATE"}}]

InitOpen ==
    /\ op = "open"
    /\ info \in OpenCalls
    /\ \E b \in Builds, fs \in FileSystems : env = [major |-> b, fs |-> fs]
    /\ out = NoOutcome
    /\ config = <<>>
    /\ lastSet = <<>>
    /\ ncalls = 0

open ==
    /\ op = "open"
    /\ out = NoOutcome
    /\ out' = openCall(info, env.major, env.fs)
    /\ UNCHANGED <<op, info, env, config, lastSet, ncalls>>

NextOpen == open

SpecOpen == InitOpen /\ [][NextOpen]_vars

OpenDone == op = "open" /\ ~Pending

\* path a string, mode omitted, null, undefined or a string
OpenArgsValid ==
    /\ Len(info) >= 1
    /\ IsString(info[1])
    /\ Len(info) >= 2 => (IsString(info[2]) \/ IsNull(info[2]) \/ IsUndefined(info[2]))

\* the mode asked for, "r" when none is given
ModeOf(args) == IF Len(args) >= 2 /\ IsString(args[2]) THEN args[2].s ELSE ModeR

\* C9: open(path, mode).  The mode is "r" when omitted; a mode other than
\* "r" and "r+" throws "Invalid open mode" before any backend is tried; else
\* the backends are tried in order (the vector registry, then the raster
\* one, before library version 2; the single GDALOpenEx from version 2),
\* each with the access the mode asks for, the handle of the first that
\* opens the path is returned and no later one is tried, and "Error opening
\* dataset" is thrown exactly when every backend tried has failed.
C9_Open ==
    (OpenDone /\ OpenArgsValid) =>
        LET mode == ModeOf(info)
            update == mode = ModeRPlus
            access == IF update THEN "GA_Update" ELSE "GA_ReadOnly"
            flags == IF update THEN "GDAL_OF_UPDATE" ELSE "GDAL_OF_READONLY"
            order == IF env.major < 2
                     THEN <<[fn |-> "OGRSFDriverRegistrar::Open", lib |-> "OGRDataSource",
                             access |-> access, opens |-> access \in env.fs.ogr],
                            [fn |-> "GDALOpen", lib |-> "GDALDataset",
                             access |-> access, opens |-> access \in env.fs.gdal]>>
                     ELSE <<[fn |-> "GDALOpenEx", lib |-> "GDALDataset",
                             access |-> flags, opens |-> flags \in env.fs.ex]>>
        IN  IF mode \notin {ModeR, ModeRPlus}
            THEN out.status = "throw" /\ out.msg = InvalidMode /\ out.lib = <<>>
            ELSE
            /\ Len(out.lib) \in 1..Len(order)
            /\ \A i \in 1..Len(out.lib) :
                  /\ out.lib[i] = LibCall(order[i].fn, info[1].s, order[i].access)
                  /\ i < Len(out.lib) => ~order[i].opens
            /\ out.status \in {"return", "throw"}
            /\ out.status = "return" =>
                  /\ order[Len(out.lib)].opens
                  /\ out.value = Handle(order[Len(out.lib)].lib, info[1].s,
                                        order[Len(out.lib)].access)
            /\ out.status = "throw" =>
                  /\ out.msg = OpenError
                  /\ Len(out.lib) = Len(order)
                  /\ \A i \in 1..Len(order) : ~order[i].opens

\* mode omitted, version 1: the vector registry failed and the raster one
\* opened the path read-only
C9_Witness ==
    /\ OpenDone
    /\ info = <<Str(<<"a">>)>>
    /\ env.major = 1
    /\ env.fs.ogr = {} /\ env.fs.gdal = {"GA_ReadOnly"}
    /\ Len(out.lib) = 2
    /\ out.status = "return"
    /\ out.value = Handle("GDALDataset", <<"a">>, "GA_ReadOnly")

-----------------------------------------------------------------------------
(* All functions of the binding *)

Init == InitGeo \/ InitDMS \/ InitConfig \/ InitOpen

Next ==
    \/ open
    \/ setConfigOption
    \/ getConfigOption
    \/ decToDMS
    \/ invGeoTransform
    \/ applyGeoTransform

Spec == Init /\ [][Next]_vars

====
